---- MODULE Spec2Model ----
(***************************************************************************)
(* Model of the derived-artifact build-and-cache pipeline:                 *)
(*   CompileCommands (src/src/compile_commands.ts): the static registry,   *)
(*   the staleness check and the build executor;                           *)
(*   AsmDocument / AsmProvider (src/unnamed/part_000): the document cache,  *)
(*   the filesystem watches and the arg-change side channel.               *)
(* The filesystem (database file, source files, artifact files) and the    *)
(* host's delivery of watch events are the environment.                    *)
(***************************************************************************)
EXTENDS Integers, Sequences, FiniteSets, TLC

\* ------------------------------------------------------------------ bounds
\* The clock stops at MaxTime: every filesystem modification takes one tick.
MaxTime == 2
\* At most MaxProvides documents are first constructed by provideAsmDocument
\* (each registers two watchers and two arg-change listeners).
MaxProvides == 2

\* --------------------------------------------------------------- constants
Sources == {"a.c"}
Schemes == {"disassembly", "llvm", "file"}
ExtraArgsChoices == {<< >>, <<"-O2">>}
\* A file that does not exist has no modification time.
Absent == -1
\* The static initTime before any successful load.
Undefined == -1
\* The compilation-database file, as a watched file.
DbFile == "compile_commands.json"
EmptyMap == [x \in {} |-> x]
Outcomes == {"ok", "fail", "nostart"}

VARIABLES
    now,              \* the wall clock
    db,               \* the database file: [status, entries, mtime]
    srcMtime,         \* source file -> mtime or Absent
    artMtime,         \* artifact path -> mtime or Absent
    extraArgs,        \* CompileCommands.extraArgs
    compileCommands,  \* CompileCommands.compileCommands: artifact path -> CompileInfo
    asmUriMap,        \* CompileCommands.asmUriMap: source -> Uri
    llvmUriMap,       \* CompileCommands.llvmUriMap
    preprocessUriMap, \* CompileCommands.preprocessUriMap
    initTime,         \* CompileCommands.initTime
    documents,        \* AsmProvider._documents: Uri -> AsmDocument
    watchers,         \* AsmProvider._watchers: <<file, Uri>> -> disposed?
    pending,          \* events the host has not yet delivered, per watcher
    listeners,        \* number of listeners of AsmProvider._onDidArgChange
    emitterDisposed,  \* AsmProvider._onDidChange has been disposed
    leaked,           \* live watchers whose entry in _watchers was overwritten
    succeeded,        \* history: artifact paths some build of which succeeded
    openUris,         \* the uris the host has documents open for
    compileCommand,   \* a CompileCommand object: the entry, and what process() made of it
    running,          \* the callback on the call stack, or none
    inFlight          \* the external processes that have been spawned and not exited

vars == <<now, db, srcMtime, artMtime, extraArgs, compileCommands, asmUriMap,
          llvmUriMap, preprocessUriMap, initTime, documents, watchers, pending,
          listeners, emitterDisposed, leaked,
          succeeded, openUris, compileCommand, running, inFlight>>

\* ------------------------------------------------------------ identifiers
\* getUriForScheme: the extension by scheme; the path is a function of the
\* source path and the extension.
Ext(scheme) ==
    IF scheme = "disassembly" THEN ".s"
    ELSE IF scheme = "llvm" THEN ".ll"
    ELSE ".E"

getUriForScheme(src, scheme) ==
    [scheme |-> scheme, path |-> <<src, Ext(scheme)>>]

encodeAsmUri(src) == getUriForScheme(src, "disassembly")
encodeLLVMUri(src) == getUriForScheme(src, "llvm")
\* The source uri's own scheme is "file".
encodePreprocessUri(src) == getUriForScheme(src, "file")

ArtPaths == {<<s, e>> : s \in Sources, e \in {".s", ".ll", ".E"}}
NativeUris == UNION {{encodeAsmUri(s), encodeLLVMUri(s), encodePreprocessUri(s)} : s \in Sources}
\* Uri.with({scheme: "disassembly"})
WithDisassemblyScheme(uri) == [uri EXCEPT !.scheme = "disassembly"]
\* The uris the host asks the provider for: the disassembly uri and one uri
\* of another scheme per source (the provider treats the llvm and the
\* preprocess uri alike).
HostUris == UNION {{encodeAsmUri(s), encodeLLVMUri(s)} : s \in Sources}

DbContents ==
    {[status |-> "ok", entries |-> E] : E \in SUBSET Sources}
        \cup {[status |-> "malformed", entries |-> {}]}

\* ----------------------------------------------------------------- helpers
Put(m, k, v) == [x \in DOMAIN m \cup {k} |-> IF x = k THEN v ELSE m[x]]
Bool(b) == IF b THEN "true" ELSE "false"
SrcUri(src) == [scheme |-> "file", path |-> <<src>>]

\* The state a handler works on: the statics of CompileCommands, the
\* artifact files, the provider's fields, and what the handler did so far
\* (builds: the external build invocations; sets: the keys stored in
\* _documents; fired: the change notifications; found: a lookup's result;
\* result: a compile result or the document returned; threw: an exception
\* left the handler).
Start ==
    [cc |-> compileCommands, asm |-> asmUriMap, llvm |-> llvmUriMap,
     pre |-> preprocessUriMap, initTime |-> initTime, art |-> artMtime,
     docs |-> documents, watchers |-> watchers, pending |-> pending,
     listeners |-> listeners, emitterDisposed |-> emitterDisposed,
     leaked |-> leaked, succeeded |-> succeeded,
     builds |-> << >>, fired |-> << >>, sets |-> << >>, found |-> {},
     result |-> "none", threw |-> FALSE]

\* ------------------------------------------------ CompileCommands (registry)
\* The target of fileNewer: undefined, a Date, or the path of a file.
DateTarget(t) ==
    IF t = Undefined THEN [kind |-> "undefined", time |-> 0]
    ELSE [kind |-> "date", time |-> t]
PathTarget(mtime) == [kind |-> "path", time |-> mtime]

\* Mutant: >= where the code has >.
fileNewer_OrEqual(sourceMtime, target) ==
    IF target.kind = "undefined" THEN "true"
    ELSE IF sourceMtime = Absent THEN "throw"
    ELSE IF target.kind = "date" THEN Bool(sourceMtime >= target.time)
    ELSE IF target.time = Absent THEN "true"
    ELSE Bool(sourceMtime >= target.time)

\* fileNewer(source, target): "true", "false", or "throw" (statSync of a
\* missing source file).
fileNewer(sourceMtime, target) ==
    IF target.kind = "undefined" THEN "true"
    ELSE IF sourceMtime = Absent THEN "throw"
    ELSE IF target.kind = "date" THEN Bool(sourceMtime > target.time)
    ELSE IF target.time = Absent THEN "true"
    ELSE Bool(sourceMtime > target.time)

\* ./utils is not part of the sources: element-wise, order-sensitive equality.
arrayEquals(a, b) == a = b

CompileInfo(uri, src) == [uri |-> uri, srcUri |-> SrcUri(src), extraArgs |-> << >>]

processCompileCommand(s, src) ==
    LET asmUri == encodeAsmUri(src)
        llvmUri == encodeLLVMUri(src)
        preprocessUri == encodePreprocessUri(src)
    IN [s EXCEPT
          !.asm = Put(@, src, asmUri),
          !.llvm = Put(@, src, llvmUri),
          !.pre = Put(@, src, preprocessUri),
          !.cc = Put(Put(Put(@, asmUri.path, CompileInfo(asmUri, src)),
                         llvmUri.path, CompileInfo(llvmUri, src)),
                     preprocessUri.path, CompileInfo(preprocessUri, src))]

RECURSIVE processAll(_, _)
processAll(s, entries) ==
    IF entries = {} THEN s
    ELSE LET e == CHOOSE x \in entries : TRUE
         IN processAll(processCompileCommand(s, e), entries \ {e})

\* init(): returns false when the file is missing; parseCompileCommands
\* throws on a malformed file; otherwise every entry is processed and
\* initTime is set.
init(s) ==
    IF db.status = "missing" THEN s
    ELSE IF db.status = "malformed" THEN [s EXCEPT !.threw = TRUE]
    ELSE [processAll(s, db.entries) EXCEPT !.initTime = now]

update(s) ==
    LET newer == fileNewer(db.mtime, DateTarget(s.initTime))
    IN IF newer = "throw" THEN [s EXCEPT !.threw = TRUE]
       ELSE IF newer = "true" THEN init([s EXCEPT !.cc = EmptyMap])
       ELSE s

extraArgsChanged(info, args) == ~arrayEquals(args, info.extraArgs)

\* needCompilation: the three checks, left to right, stopping at the first
\* that is true (or throws).
needCompilation(s, info) ==
    IF extraArgsChanged(info, extraArgs) THEN "true"
    ELSE LET bySource == fileNewer(srcMtime[info.srcUri.path[1]],
                                   PathTarget(s.art[info.uri.path]))
         IN IF bySource # "false" THEN bySource
            ELSE fileNewer(db.mtime, PathTarget(s.art[info.uri.path]))

\* The c++filt pass, `echo "..." > file`, is run whatever the compiler
\* returned: its redirection creates or rewrites the artifact file. Nothing
\* runs when the shell itself could not be started.
demangle(s, info, outcome) ==
    IF outcome = "nostart" THEN s
    ELSE [s EXCEPT !.art[info.uri.path] = now]

\* Mutant: the arguments are recorded before the result is looked at.
execCompileCommand_RecordsAlways(s, info, outcome) ==
    LET ran == [s EXCEPT !.builds = Append(@, [path |-> info.uri.path,
                                                args |-> extraArgs,
                                                outcome |-> outcome])]
        filtered == demangle(ran, info, outcome)
        recorded == [filtered EXCEPT !.cc[info.uri.path].extraArgs = extraArgs]
    IN IF outcome # "ok" THEN [recorded EXCEPT !.result = "error"]
       ELSE [recorded EXCEPT !.succeeded = @ \cup {info.uri.path},
                             !.result = "true"]

\* Mutant: the arguments of a successful build are not recorded.
execCompileCommand_NoRecord(s, info, outcome) ==
    LET ran == [s EXCEPT !.builds = Append(@, [path |-> info.uri.path,
                                                args |-> extraArgs,
                                                outcome |-> outcome])]
        filtered == demangle(ran, info, outcome)
    IN IF outcome # "ok" THEN [filtered EXCEPT !.result = "error"]
       ELSE [filtered EXCEPT !.succeeded = @ \cup {info.uri.path},
                             !.result = "true"]

\* execCompileCommand: one external build invocation with the current extra
\* arguments, then the c++filt pass; extraArgs is recorded on success only.
execCompileCommand(s, info, outcome) ==
    LET ran == [s EXCEPT !.builds = Append(@, [path |-> info.uri.path,
                                                args |-> extraArgs,
                                                outcome |-> outcome])]
        filtered == demangle(ran, info, outcome)
    IN IF outcome # "ok" THEN [filtered EXCEPT !.result = "error"]
       ELSE [filtered EXCEPT !.cc[info.uri.path].extraArgs = extraArgs,
                             !.succeeded = @ \cup {info.uri.path},
                             !.result = "true"]

getCompileInfo(s, uri) ==
    IF uri.path \in DOMAIN s.cc THEN {s.cc[uri.path]} ELSE {}

\* Mutant: the staleness check is skipped.
compile_Always(s, uri, outcome) ==
    LET s1 == update(s)
    IN IF s1.threw THEN s1
       ELSE IF getCompileInfo(s1, uri) = {} THEN [s1 EXCEPT !.result = "false"]
       ELSE execCompileCommand(s1, CHOOSE i \in getCompileInfo(s1, uri) : TRUE, outcome)

\* compile(uri): "true", "false" (no record) or "error" (the build failed).
compile(s, uri, outcome) ==
    LET s1 == update(s)
    IN IF s1.threw THEN s1
       ELSE IF getCompileInfo(s1, uri) = {} THEN [s1 EXCEPT !.result = "false"]
       ELSE LET compileInfo == CHOOSE i \in getCompileInfo(s1, uri) : TRUE
                need == needCompilation(s1, compileInfo)
            IN IF need = "throw" THEN [s1 EXCEPT !.threw = TRUE]
               ELSE IF need = "true" THEN execCompileCommand(s1, compileInfo, outcome)
               ELSE [s1 EXCEPT !.result = "true"]

getSrcUri(s, uri) ==
    LET s1 == update(s)
    IN IF s1.threw THEN s1
       ELSE [s1 EXCEPT !.found = {i.srcUri : i \in getCompileInfo(s1, uri)}]

Lookup(m, src) == IF src \in DOMAIN m THEN {m[src]} ELSE {}

getAsmUri(s, src) ==
    LET s1 == update(s)
    IN IF s1.threw THEN s1 ELSE [s1 EXCEPT !.found = Lookup(s1.asm, src)]

getLLVMUri(s, src) ==
    LET s1 == update(s)
    IN IF s1.threw THEN s1 ELSE [s1 EXCEPT !.found = Lookup(s1.llvm, src)]

getPreprocessUri(s, src) ==
    LET s1 == update(s)
    IN IF s1.threw THEN s1 ELSE [s1 EXCEPT !.found = Lookup(s1.pre, src)]

\* ------------------------------------------------- AsmDocument, AsmProvider
\* new AsmDocument(uri): the document is its compileResult (the parsed
\* lines are the external parser's).
newAsmDocument(s, uri, outcome) == compile(s, uri, outcome)

\* addWatcherForURI(uri, asm): a watcher on the file, stored under the two
\* uris, and one more arg-change listener.
addWatcherForURI(s, file, asm) ==
    [s EXCEPT !.leaked = IF <<file, asm>> \in DOMAIN s.watchers
                            /\ ~s.watchers[<<file, asm>>].disposed
                         THEN @ \cup {<<file, asm>>} ELSE @,
              !.watchers = Put(@, <<file, asm>>, [disposed |-> FALSE]),
              !.pending = Put(@, <<file, asm>>, 0),
              !.listeners = @ + 1]

\* Mutant: the cache is not consulted.
provideAsmDocument_NoCache(s, uri, outcome) ==
    LET made == newAsmDocument(s, uri, outcome)
    IN IF made.threw THEN made
       ELSE LET cached == [made EXCEPT !.docs = Put(@, uri, made.result),
                                       !.sets = Append(@, uri)]
                looked == getSrcUri(cached, uri)
            IN IF looked.threw THEN looked
               ELSE IF looked.found = {} THEN [looked EXCEPT !.threw = TRUE]
               ELSE LET src == CHOOSE u \in looked.found : TRUE
                    IN addWatcherForURI(
                           addWatcherForURI(looked, src.path[1], uri),
                           DbFile, uri)

\* provideAsmDocument(uri): the cached document, or a new one, cached before
\* the two watches are installed; `uri!.path` throws when getSrcUri found
\* nothing.
provideAsmDocument(s, uri, outcome) ==
    IF uri \in DOMAIN s.docs THEN [s EXCEPT !.result = s.docs[uri]]
    ELSE LET made == newAsmDocument(s, uri, outcome)
         IN IF made.threw THEN made
            ELSE LET cached == [made EXCEPT !.docs = Put(@, uri, made.result),
                                            !.sets = Append(@, uri)]
                     looked == getSrcUri(cached, uri)
                 IN IF looked.threw THEN looked
                    ELSE IF looked.found = {} THEN [looked EXCEPT !.threw = TRUE]
                    ELSE LET src == CHOOSE u \in looked.found : TRUE
                         IN addWatcherForURI(
                                addWatcherForURI(looked, src.path[1], uri),
                                DbFile, uri)

\* reloadAsmDocument(fileUri): a new document under the disassembly-scheme
\* uri, then a change notification (none once the emitter is disposed).
reloadAsmDocument(s, fileUri, outcome) ==
    LET uri == WithDisassemblyScheme(fileUri)
        made == newAsmDocument(s, uri, outcome)
    IN IF made.threw THEN made
       ELSE [made EXCEPT !.docs = Put(@, uri, made.result),
                         !.sets = Append(@, uri),
                         !.fired = IF made.emitterDisposed THEN @ ELSE Append(@, uri)]

\* TypedEvent.emit (./typedevent is not part of the sources): the listeners
\* are called in turn; one that throws ends the emit.
RECURSIVE emit(_, _, _, _)
emit(s, asmUri, outcome, n) ==
    IF n = 0 \/ s.threw THEN s
    ELSE emit(reloadAsmDocument(s, asmUri, outcome), asmUri, outcome, n - 1)

notifyCompileArgsChange(s, asmUri, outcome) ==
    emit(s, asmUri, outcome, s.listeners)

\* Mutant: the watchers are left running.
dispose_KeepsWatchers(s) ==
    [s EXCEPT !.docs = EmptyMap, !.emitterDisposed = TRUE]

\* dispose(): every watcher in the map is disposed (the host drops its
\* undelivered events), the documents are cleared; the emitter is disposed.
dispose(s) ==
    [s EXCEPT !.watchers = [k \in DOMAIN @ |-> [disposed |-> TRUE]],
              !.pending = [k \in DOMAIN @ |-> 0],
              !.docs = EmptyMap,
              !.emitterDisposed = TRUE]

\* -------------------------------------------------------------------- Init
\* The state after activation: CompileCommands.init() has run once on the
\* database as it was then; no artifact has been built.
InitialDb ==
    {[status |-> "ok", entries |-> E, mtime |-> 0] : E \in SUBSET Sources}
        \cup {[status |-> "missing", entries |-> {}, mtime |-> Absent]}

Blank ==
    [cc |-> EmptyMap, asm |-> EmptyMap, llvm |-> EmptyMap, pre |-> EmptyMap,
     initTime |-> Undefined, art |-> [p \in ArtPaths |-> Absent],
     docs |-> EmptyMap, watchers |-> EmptyMap, pending |-> EmptyMap,
     listeners |-> 0, emitterDisposed |-> FALSE, leaked |-> {}, succeeded |-> {},
     builds |-> << >>, fired |-> << >>, sets |-> << >>, found |-> {},
     result |-> "none", threw |-> FALSE]

\* No CompileCommand object under construction; no callback on the stack.
NoCommand == [stage |-> "none"]
NoCall == [pc |-> "idle"]

\* The documents a session has open: one per session here.
Sessions == {{u} : u \in HostUris}

Init ==
    /\ now = 0
    /\ db \in InitialDb
    /\ srcMtime = [f \in Sources |-> 0]
    /\ extraArgs = << >>
    /\ LET s == init(Blank)
       IN /\ compileCommands = s.cc
          /\ asmUriMap = s.asm
          /\ llvmUriMap = s.llvm
          /\ preprocessUriMap = s.pre
          /\ initTime = s.initTime
          /\ artMtime = s.art
          /\ documents = s.docs
          /\ watchers = s.watchers
          /\ pending = s.pending
          /\ listeners = s.listeners
          /\ emitterDisposed = s.emitterDisposed
          /\ leaked = s.leaked
          /\ succeeded = s.succeeded
    /\ openUris \in Sessions
    /\ compileCommand = NoCommand
    /\ running = NoCall
    /\ inFlight = {}

\* What a handler leaves behind.
Commit(s) ==
    /\ compileCommands' = s.cc
    /\ asmUriMap' = s.asm
    /\ llvmUriMap' = s.llvm
    /\ preprocessUriMap' = s.pre
    /\ initTime' = s.initTime
    /\ artMtime' = s.art
    /\ documents' = s.docs
    /\ watchers' = s.watchers
    /\ pending' = s.pending
    /\ listeners' = s.listeners
    /\ emitterDisposed' = s.emitterDisposed
    /\ leaked' = s.leaked
    /\ succeeded' = s.succeeded

\* What the registry and provider handlers never write.
aside == <<compileCommand, running, inFlight>>
env == <<now, db, srcMtime, openUris, aside>>

\* ------------------------------------------------------------- environment
\* A create, change or delete of `file`: one event for each live watcher on it.
Queue(file) ==
    [k \in DOMAIN pending |->
        IF k[1] = file /\ ~watchers[k].disposed THEN pending[k] + 1 ELSE pending[k]]

registry == <<compileCommands, asmUriMap, llvmUriMap, preprocessUriMap, initTime>>
provider == <<documents, watchers, listeners, emitterDisposed, leaked, succeeded>>

WriteDb(content) ==
    /\ now < MaxTime
    /\ now' = now + 1
    /\ db' = [status |-> content.status, entries |-> content.entries, mtime |-> now']
    /\ pending' = Queue(DbFile)
    /\ UNCHANGED <<srcMtime, artMtime, extraArgs, registry, provider, openUris, aside>>

DeleteDb ==
    /\ now < MaxTime
    /\ db.status # "missing"
    /\ now' = now + 1
    /\ db' = [status |-> "missing", entries |-> {}, mtime |-> Absent]
    /\ pending' = Queue(DbFile)
    /\ UNCHANGED <<srcMtime, artMtime, extraArgs, registry, provider, openUris, aside>>

TouchSrc(src) ==
    /\ now < MaxTime
    /\ now' = now + 1
    /\ srcMtime' = [srcMtime EXCEPT ![src] = now']
    /\ pending' = Queue(src)
    /\ UNCHANGED <<db, artMtime, extraArgs, registry, provider, openUris, aside>>

DeleteSrc(src) ==
    /\ now < MaxTime
    /\ srcMtime[src] # Absent
    /\ now' = now + 1
    /\ srcMtime' = [srcMtime EXCEPT ![src] = Absent]
    /\ pending' = Queue(src)
    /\ UNCHANGED <<db, artMtime, extraArgs, registry, provider, openUris, aside>>

\* ---------------------------------------------------------------- handlers
\* The host delivers one pending event of watcher k: onDidChange,
\* onDidCreate and onDidDelete all call reloadAsmDocument(asm).
\* `outcome` is what the external build does if the handler runs one; it is
\* drawn only when one is run.
Drawn(s, outcome) == s.builds = << >> => outcome = "ok"

Deliver(k, outcome) ==
    LET s == reloadAsmDocument([Start EXCEPT !.pending[k] = @ - 1], k[2], outcome)
    IN /\ ~watchers[k].disposed
       /\ pending[k] > 0
       /\ Drawn(s, outcome)
       /\ Commit(s)
       /\ UNCHANGED <<env, extraArgs>>

ProvideAsmDocument(uri, outcome) ==
    LET s == provideAsmDocument(Start, uri, outcome)
    IN /\ s.listeners <= 2 * MaxProvides
       /\ Drawn(s, outcome)
       /\ Commit(s)
       /\ UNCHANGED <<env, extraArgs>>

NotifyCompileArgsChange(uri, outcome) ==
    LET s == notifyCompileArgsChange(Start, uri, outcome)
    IN /\ Drawn(s, outcome)
       /\ Commit(s)
       /\ UNCHANGED <<env, extraArgs>>

SetExtraCompileArgs(args) ==
    /\ extraArgs' = args
    /\ UNCHANGED <<env, artMtime, registry, provider, pending>>

Dispose ==
    /\ Commit(dispose(Start))
    /\ UNCHANGED <<env, extraArgs>>

GetSrcUri(uri) ==
    /\ Commit(getSrcUri(Start, uri))
    /\ UNCHANGED <<env, extraArgs>>

GetAsmUri(src) ==
    /\ Commit(getAsmUri(Start, src))
    /\ UNCHANGED <<env, extraArgs>>

GetLLVMUri(src) ==
    /\ Commit(getLLVMUri(Start, src))
    /\ UNCHANGED <<env, extraArgs>>

GetPreprocessUri(src) ==
    /\ Commit(getPreprocessUri(Start, src))
    /\ UNCHANGED <<env, extraArgs>>

Next ==
    \/ \E c \in DbContents : WriteDb(c)
    \/ DeleteDb
    \/ \E src \in Sources : TouchSrc(src)
    \/ \E src \in Sources : DeleteSrc(src)
    \/ \E k \in DOMAIN watchers, o \in Outcomes : Deliver(k, o)
    \/ \E uri \in openUris, o \in Outcomes : ProvideAsmDocument(uri, o)
    \/ \E uri \in openUris, o \in Outcomes : NotifyCompileArgsChange(uri, o)
    \/ \E args \in ExtraArgsChoices : SetExtraCompileArgs(args)
    \/ Dispose
    \/ \E uri \in openUris : GetSrcUri(uri)
    \/ \E src \in Sources : GetAsmUri(src)
    \/ \E src \in Sources : GetLLVMUri(src)
    \/ \E src \in Sources : GetPreprocessUri(src)

Spec == Init /\ [][Next]_vars

\* =================================================================== claims
\* The state the next handler starts from, after a handler left s.
Again(s) ==
    [s EXCEPT !.builds = << >>, !.fired = << >>, !.sets = << >>, !.found = {},
              !.result = "none", !.threw = FALSE]

\* What persists between handlers.
Kept(s) ==
    <<s.cc, s.asm, s.llvm, s.pre, s.initTime, s.art, s.docs, s.watchers,
      s.pending, s.listeners, s.emitterDisposed, s.leaked>>

\* compile(uri) in state s would find a record and find it stale.
Stale(s, uri) ==
    LET s1 == update(s)
    IN /\ ~s1.threw
       /\ getCompileInfo(s1, uri) # {}
       /\ \A i \in getCompileInfo(s1, uri) : needCompilation(s1, i) = "true"

\* C1 (amended): of consecutive requests for one artifact, with nothing
\* changed in between, only the first can invoke the external build, and it
\* invokes it at most once - exactly once when no document is cached and the
\* record exists and is stale; every later request invokes no build, returns
\* the cached document and leaves the registry, the artifact files, the
\* document cache and the watches as they were.
C1_AtMostOneBuildPerRun ==
    \A uri \in HostUris, o \in Outcomes :
        LET first == provideAsmDocument(Start, uri, o)
            later == provideAsmDocument(Again(first), uri, o)
        IN /\ Len(first.builds) <= 1
           /\ Len(first.builds) = 1 <=> (uri \notin DOMAIN documents /\ Stale(Start, uri))
           /\ later.builds = << >>
           /\ Kept(later) = Kept(first)
           /\ uri \in DOMAIN first.docs => later.result = first.docs[uri]

\* C1 witness: a request has built and cached a document, and its watches
\* are installed.
C1_Witness ==
    \E uri \in openUris :
        /\ uri \in DOMAIN documents
        /\ documents[uri] = "true"
        /\ uri.path \in succeeded
        /\ <<DbFile, uri>> \in DOMAIN watchers

\* C1 as claimed: the first request of a run (no document cached yet) for a
\* registered artifact makes exactly one external build invocation.
C1_Original_ExactlyOneBuild ==
    \A uri \in openUris, o \in Outcomes :
        LET first == provideAsmDocument(Start, uri, o)
        IN (uri \notin DOMAIN documents /\ ~first.threw /\ first.result # "false")
              => Len(first.builds) = 1

\* The database is loaded and current, and `uri` has a record whose artifact
\* file exists and is not older than the database file.
Settled(uri) ==
    /\ db.status = "ok"
    /\ initTime # Undefined
    /\ db.mtime <= initTime
    /\ uri.path \in DOMAIN compileCommands
    /\ artMtime[uri.path] # Absent
    /\ db.mtime <= artMtime[uri.path]

\* The source file's mtime has been advanced past the artifact's, and
\* nothing else makes the artifact stale.
SourceAdvanced(uri) ==
    /\ Settled(uri)
    /\ compileCommands[uri.path].extraArgs = extraArgs
    /\ srcMtime[uri.path[1]] # Absent
    /\ srcMtime[uri.path[1]] > artMtime[uri.path]

\* C2 (amended): once the source's mtime is past the artifact's (nothing else
\* changed), the next compile of the artifact - by a watch-triggered or
\* forced reload, or by a request that finds no cached document - makes
\* exactly one external build invocation, and once that build has succeeded
\* further reloads and requests make none; a request that finds the document
\* cached makes none and returns the cached document.
C2_SourceChangeRebuildsOnce ==
    \A uri \in HostUris, o \in Outcomes :
        SourceAdvanced(uri) =>
            LET r == reloadAsmDocument(Start, uri, o)
                p == provideAsmDocument(Start, uri, o)
            IN /\ Len(r.builds) = 1
               /\ r.builds[1].path = uri.path
               /\ Len(p.builds) = IF uri \in DOMAIN documents THEN 0 ELSE 1
               /\ o = "ok" =>
                    /\ reloadAsmDocument(Again(r), uri, o).builds = << >>
                    /\ provideAsmDocument(Again(r), uri, o).builds = << >>
                    /\ reloadAsmDocument(Again(p), uri, o).builds
                         = IF uri \in DOMAIN documents THEN r.builds ELSE << >>

\* C2 witness: the artifact was built and served, the source was then
\* modified, and the watch event that will reload the artifact is pending.
C2_Witness ==
    \E uri \in openUris :
        /\ SourceAdvanced(uri)
        /\ uri \in DOMAIN documents
        /\ documents[uri] = "true"
        /\ uri.path \in succeeded
        /\ <<uri.path[1], uri>> \in DOMAIN pending
        /\ pending[<<uri.path[1], uri>>] > 0

\* C2 as claimed: with the artifact built and served (its document cached)
\* and the source advanced, the next request makes exactly one rebuild.
C2_Original_NextRequestRebuilds ==
    \A uri \in openUris, o \in Outcomes :
        (SourceAdvanced(uri) /\ uri \in DOMAIN documents)
            => Len(provideAsmDocument(Start, uri, o).builds) = 1

\* The extra arguments went from [] (the record's) to ["-O2"], with no
\* timestamp change.
ArgsChanged(uri) ==
    /\ Settled(uri)
    /\ compileCommands[uri.path].extraArgs = << >>
    /\ extraArgs = <<"-O2">>
    /\ srcMtime[uri.path[1]] # Absent
    /\ srcMtime[uri.path[1]] <= artMtime[uri.path]

\* C3 (amended): after the extra arguments change from [] to ["-O2"] with no
\* timestamp change, the next compile of the artifact - by a forced or
\* watch-triggered reload, or by a request that finds no cached document -
\* invokes the build once, with ["-O2"]; once that build has succeeded the
\* record holds ["-O2"] and a later compile with the same arguments builds
\* nothing. A request that finds the document cached builds nothing.
C3_ArgsChangeRebuilds ==
    \A uri \in HostUris, o \in Outcomes :
        ArgsChanged(uri) =>
            LET r == reloadAsmDocument(Start, uri, o)
                p == provideAsmDocument(Start, uri, o)
            IN /\ Len(r.builds) = 1
               /\ r.builds[1].args = <<"-O2">>
               /\ Len(p.builds) = IF uri \in DOMAIN documents THEN 0 ELSE 1
               /\ o = "ok" =>
                    /\ r.cc[uri.path].extraArgs = <<"-O2">>
                    /\ reloadAsmDocument(Again(r), uri, o).builds = << >>
                    /\ provideAsmDocument(Again(r), uri, o).builds = << >>

\* C3 witness: the artifact was built successfully with [] and served, and
\* the extra arguments were then set to ["-O2"]; no file has changed.
C3_Witness ==
    \E uri \in openUris :
        /\ ArgsChanged(uri)
        /\ uri \in DOMAIN documents
        /\ documents[uri] = "true"
        /\ uri.path \in succeeded
        /\ now = 0

\* C3 as claimed: with the document cached, the next request after the
\* change of arguments rebuilds.
C3_Original_NextRequestRebuilds ==
    \A uri \in openUris, o \in Outcomes :
        (ArgsChanged(uri) /\ uri \in DOMAIN documents)
            => Len(provideAsmDocument(Start, uri, o).builds) = 1

\* C4: when the database file is newer than the last load, the next public
\* registry operation answers from exactly the new database: each kind's
\* lookup finds a source iff the database lists it, and compile finds a
\* record iff it does.
C4_HotReloadReflectsDatabase ==
    (db.status = "ok" /\ (initTime = Undefined \/ db.mtime > initTime)) =>
        \A src \in Sources :
            LET listed(u) == IF src \in db.entries THEN {u} ELSE {}
            IN /\ getAsmUri(Start, src).found = listed(encodeAsmUri(src))
               /\ getLLVMUri(Start, src).found = listed(encodeLLVMUri(src))
               /\ getPreprocessUri(Start, src).found = listed(encodePreprocessUri(src))
               /\ \A u \in {encodeAsmUri(src), encodeLLVMUri(src), encodePreprocessUri(src)} :
                     /\ getSrcUri(Start, u).found = listed(SrcUri(src))
                     /\ src \notin db.entries => compile(Start, u, "ok").result = "false"

\* C5: after a build of an artifact has failed, the next compile of it, with
\* nothing changed, invokes the external build again, and reports success
\* only if that build succeeds.
C5_FailedBuildIsRetried ==
    \A uri \in openUris, o \in Outcomes :
        LET failed == compile(Start, uri, "fail")
            next == compile(Again(failed), uri, o)
        IN failed.result = "error" =>
              /\ Len(next.builds) = 1
              /\ next.result = "true" => o = "ok"

\* C6: for an artifact of any kind whose document has been constructed, a
\* watch event reloads it: the cache entry of that same identifier is set to
\* the new document and one change notification names that identifier.
C6_WatchEventReplacesDocument ==
    \A k \in DOMAIN watchers, o \in Outcomes :
        (~watchers[k].disposed /\ pending[k] > 0 /\ k[2] \in DOMAIN documents) =>
            LET r == reloadAsmDocument(Start, k[2], o)
            IN /\ r.sets = <<k[2]>>
               /\ r.fired = <<k[2]>>
               /\ k[2] \in DOMAIN r.docs
               /\ r.docs[k[2]] = r.result

\* C7: while the database file is missing or malformed, a public operation
\* leaves the registry empty - the record map and all three kind maps - and
\* finds nothing.
C7_FailedLoadLeavesRegistryEmpty ==
    db.status \in {"missing", "malformed"} =>
        \A src \in Sources :
            LET r == getAsmUri(Start, src)
            IN /\ r.cc = EmptyMap
               /\ r.asm = EmptyMap
               /\ r.llvm = EmptyMap
               /\ r.pre = EmptyMap
               /\ r.found = {}

\* C8: dispose() leaves no watch live and no document cached, and a second
\* dispose() changes nothing.
C8_DisposeIdempotent ==
    LET once == dispose(Start)
        twice == dispose(Again(once))
    IN /\ \A k \in DOMAIN once.watchers : once.watchers[k].disposed
       /\ DOMAIN once.watchers = DOMAIN watchers
       /\ once.leaked = {}
       /\ once.docs = EmptyMap
       /\ \A k \in DOMAIN once.pending : once.pending[k] = 0
       /\ Kept(twice) = Kept(once)

\* C8 witness: dispose() has run after watches were installed.
C8_Witness ==
    /\ emitterDisposed
    /\ documents = EmptyMap
    /\ watchers # EmptyMap
    /\ \A k \in DOMAIN watchers : watchers[k].disposed

SeqElems(q) == {q[i] : i \in 1..Len(q)}

\* C9: with the extra arguments different from the record's, and the
\* artifact's document cached, notifyArgsChanged reloads the artifact: a
\* build is run with the new arguments and the cached document of that
\* artifact is replaced.
C9_NotifyForcesReload ==
    \A uri \in openUris, o \in Outcomes :
        ( /\ db.status = "ok"
          /\ initTime # Undefined
          /\ db.mtime <= initTime
          /\ uri.path \in DOMAIN compileCommands
          /\ compileCommands[uri.path].extraArgs # extraArgs
          /\ uri \in DOMAIN documents ) =>
            LET r == notifyCompileArgsChange(Start, uri, o)
            IN /\ Len(r.builds) >= 1
               /\ r.builds[1].args = extraArgs
               /\ uri \in SeqElems(r.sets)

\* C10 (amended): events are not debounced - each delivered event makes one
\* reload: one compile and, unless it throws, one document stored under the
\* disassembly-scheme uri and one change notification (none once dispose()
\* has disposed the emitter). The reload invokes
\* the external build only if the artifact is stale at that moment (at most
\* once), so k events make k reloads and at most k builds: after a rebuild
\* that succeeded, the next event of the burst rebuilds nothing.
C10_EachEventReloadsOnce ==
    \A k \in DOMAIN watchers, o \in Outcomes :
        (~watchers[k].disposed /\ pending[k] > 0) =>
            LET uri == WithDisassemblyScheme(k[2])
                r == reloadAsmDocument(Start, k[2], o)
                again == reloadAsmDocument(Again(r), k[2], o)
            IN /\ Len(r.builds) <= 1
               /\ Len(r.builds) = 1 <=> Stale(Start, k[2])
               /\ r.sets = IF r.threw THEN << >> ELSE <<uri>>
               /\ r.fired = IF emitterDisposed THEN << >> ELSE r.sets
               /\ ~r.threw => r.docs[uri] = r.result
               /\ (o = "ok" /\ ~r.threw) =>
                     /\ again.builds = << >>
                     /\ again.sets = IF again.threw THEN << >> ELSE <<uri>>
                     /\ again.fired = IF emitterDisposed THEN << >> ELSE again.sets

\* C10 witness: the source was modified twice, the artifact was rebuilt
\* after the second modification, and an event of the burst is still to be
\* delivered.
C10_Witness ==
    \E k \in DOMAIN watchers :
        /\ ~watchers[k].disposed
        /\ pending[k] > 0
        /\ k[1] \in Sources
        /\ now >= 2
        /\ srcMtime[k[1]] = now
        /\ artMtime[k[2].path] = now
        /\ k[2].path \in succeeded
        /\ ~Stale(Start, k[2])
        /\ k[2].path \in DOMAIN compileCommands

\* C10 as claimed: every delivered event re-triggers a full rebuild.
C10_Original_EveryEventRebuilds ==
    \A k \in DOMAIN watchers, o \in Outcomes :
        (~watchers[k].disposed /\ pending[k] > 0) =>
            LET r == reloadAsmDocument(Start, k[2], o)
            IN (~r.threw /\ r.result # "false") => Len(r.builds) = 1

\* ===================================================== CompileCommand (entry)
\* The longest argument list enumerated.
MaxArgs == 4

Tokens == {"-c", "-g", "-o", "-O2", "foo.c"}
Compiler == "/usr/bin/cc"
\* The words of the two entries the specification works through: the
\* arguments of P4 and the command of P6 split at white space, the empty
\* matches of the regular expression included.
P4Args == <<"-c", "-g", "-O2", "-o", "out.o", "foo.c">>
P6Command == <<"/usr/bin/cc", "", "-O2", "", "-g", "", "-c", "", "a.c", "", "-o", "", "a.o", "">>

RawArgs == UNION {[1..n -> Tokens] : n \in 0..MaxArgs}

\* The entries read from the database: `words` is what _command.match(..)
\* or _arguments holds.
Entries ==
    {[file |-> "a.c", directory |-> "/p", words |-> <<Compiler>> \o a] : a \in RawArgs}
        \cup {[file |-> "a.c", directory |-> "/p", words |-> <<Compiler>> \o P4Args],
              [file |-> "a.c", directory |-> "/p", words |-> P6Command]}

\* sanitizeArgs: Array.filter with the flag isOutfile carried from one
\* element to the next. The pass state is <<kept so far, isOutfile>>.
RECURSIVE sanitizePass(_, _, _)
sanitizePass(args, kept, isOutfile) ==
    IF args = << >> THEN kept
    ELSE LET arg == Head(args)
         IN IF ~isOutfile
            THEN IF arg = "-o"
                 THEN sanitizePass(Tail(args), kept, TRUE)
                 ELSE IF arg # "-c" /\ arg # "-g"
                      THEN sanitizePass(Tail(args), Append(kept, arg), FALSE)
                      ELSE sanitizePass(Tail(args), kept, FALSE)
            ELSE sanitizePass(Tail(args), kept, FALSE)

sanitizeArgs_KeepsValue(args) ==
    SelectSeq(args, LAMBDA arg : arg \notin {"-c", "-g", "-o"})

sanitizeArgs(args) == sanitizePass(args, << >>, FALSE)

process_NoSanitize(entry) ==
    LET commands == SelectSeq(entry.words, LAMBDA arg : arg # "")
    IN [stage |-> "processed", file |-> entry.file, directory |-> entry.directory,
        words |-> entry.words, command |-> commands[1], args |-> Tail(commands)]

\* process(): the non-empty words; the first is the compiler, the rest are
\* sanitized.
process(entry) ==
    LET commands == SelectSeq(entry.words, LAMBDA arg : arg # "")
    IN [stage |-> "processed", file |-> entry.file, directory |-> entry.directory,
        words |-> entry.words, command |-> commands[1],
        args |-> sanitizeArgs(Tail(commands))]

\* Array.join(' ')
RECURSIVE getCommand(_)
getCommand(args) ==
    IF args = << >> THEN ""
    ELSE IF Len(args) = 1 THEN args[1]
    ELSE args[1] \o " " \o getCommand(Tail(args))

DisassembleFlags ==
    <<"-g1", "-S", "-masm=intel", "-fno-unwind-tables",
      "-fno-asynchronous-unwind-tables", "-fno-dwarf2-cfi-asm">>

getDisassembleArgs(cmd, outFile) ==
    <<cmd.command>> \o DisassembleFlags \o cmd.args \o <<"-o", "\"" \o outFile \o "\"">>
getDisassembleCommand(cmd, outFile) == getCommand(getDisassembleArgs(cmd, outFile))

getPreprocessArgs(cmd, outFile) == <<cmd.command, "-E", "-o", outFile>> \o cmd.args
getPreprocessCommand(cmd, outFile) == getCommand(getPreprocessArgs(cmd, outFile))

getLLVMDisassembleArgs_OutputLast(cmd, outFile) ==
    <<cmd.command, "-g", "-S", "-emit-llvm">> \o cmd.args \o <<"-o", outFile>>

getLLVMDisassembleArgs(cmd, outFile) ==
    <<cmd.command, "-g", "-S", "-emit-llvm", "-o", outFile>> \o cmd.args
getLLVMDisassembleCommand(cmd, outFile) == getCommand(getLLVMDisassembleArgs(cmd, outFile))

\* The path of an artifact uri as a string: outDir, the source's path
\* relative to the workspace root with every "/" replaced by "@", and the
\* extension. `relativePath` gives the segments between the "/"s.
OutDir == "<outDir>/"
relativePath(src) == <<src>>
RECURSIVE replaceSlashes(_)
replaceSlashes(segments) ==
    IF Len(segments) = 1 THEN segments[1]
    ELSE segments[1] \o "@" \o replaceSlashes(Tail(segments))
uriPath(uri) == OutDir \o replaceSlashes(relativePath(uri.path[1])) \o uri.path[2]

\* A CompileCommand object as deserialized, before process().
Parsed(entry) ==
    [stage |-> "parsed", file |-> entry.file, directory |-> entry.directory,
     words |-> entry.words, command |-> "", args |-> <<"">>]

\* The command line and working directory execCompileCommand spawns.
spawnArgs(info, args) ==
    [command |-> info.command \o " " \o getCommand(args),
     cwd |-> info.compilationDirectory]

\* The pipeline before activation.
Unused ==
    /\ now = 0
    /\ db = [status |-> "missing", entries |-> {}, mtime |-> Absent]
    /\ srcMtime = [f \in Sources |-> 0]
    /\ extraArgs = << >>
    /\ compileCommands = Blank.cc
    /\ asmUriMap = Blank.asm
    /\ llvmUriMap = Blank.llvm
    /\ preprocessUriMap = Blank.pre
    /\ initTime = Blank.initTime
    /\ artMtime = Blank.art
    /\ documents = Blank.docs
    /\ watchers = Blank.watchers
    /\ pending = Blank.pending
    /\ listeners = Blank.listeners
    /\ emitterDisposed = Blank.emitterDisposed
    /\ leaked = Blank.leaked
    /\ succeeded = Blank.succeeded
    /\ openUris = {}

pipeline ==
    <<now, db, srcMtime, artMtime, extraArgs, registry, pending, provider, openUris>>

InitCommand ==
    /\ Unused
    /\ compileCommand \in {Parsed(e) : e \in Entries}
    /\ running = NoCall
    /\ inFlight = {}

Process ==
    /\ compileCommand.stage = "parsed"
    /\ compileCommand' = process(compileCommand)
    /\ UNCHANGED <<pipeline, running, inFlight>>

\* processCompileCommand: the CompileInfo made for one kind.
Synthesized(kind, uri, command) ==
    [stage |-> "info", kind |-> kind, uri |-> uri, command |-> command,
     compilationDirectory |-> compileCommand.directory,
     source |-> compileCommand]

GetDisassembleCommand ==
    /\ compileCommand.stage = "processed"
    /\ LET uri == encodeAsmUri(compileCommand.file)
       IN compileCommand' =
            Synthesized("disassembly", uri, getDisassembleCommand(compileCommand, uriPath(uri)))
    /\ UNCHANGED <<pipeline, running, inFlight>>

GetLLVMDisassembleCommand ==
    /\ compileCommand.stage = "processed"
    /\ LET uri == encodeLLVMUri(compileCommand.file)
       IN compileCommand' =
            Synthesized("llvm", uri, getLLVMDisassembleCommand(compileCommand, uriPath(uri)))
    /\ UNCHANGED <<pipeline, running, inFlight>>

GetPreprocessCommand ==
    /\ compileCommand.stage = "processed"
    /\ LET uri == encodePreprocessUri(compileCommand.file)
       IN compileCommand' =
            Synthesized("preprocess", uri, getPreprocessCommand(compileCommand, uriPath(uri)))
    /\ UNCHANGED <<pipeline, running, inFlight>>

\* execCompileCommand, up to the spawn of the build command.
ExecCompileCommand(args) ==
    /\ compileCommand.stage = "info"
    /\ compileCommand' =
         [stage |-> "spawned", info |-> compileCommand, extraArgs |-> args,
          spawn |-> spawnArgs(compileCommand, args)]
    /\ UNCHANGED <<pipeline, running, inFlight>>

NextCommand ==
    \/ Process
    \/ GetDisassembleCommand
    \/ GetLLVMDisassembleCommand
    \/ GetPreprocessCommand
    \/ \E args \in ExtraArgsChoices : ExecCompileCommand(args)

SpecCommand == InitCommand /\ [][NextCommand]_vars

\* ------------------------------------------------------ claims C12 to C14
\* The arguments handed to sanitizeArgs by process().
RawOf(cmd) == Tail(SelectSeq(cmd.words, LAMBDA arg : arg # ""))

\* Position i of args holds a removed "-o": an "-o" that is not the value of
\* the removed "-o" before it.
RECURSIVE RemovedFlag(_, _)
RemovedFlag(args, i) ==
    /\ i \in 1..Len(args)
    /\ args[i] = "-o"
    /\ ~RemovedFlag(args, i - 1)

Deleted(args, i) ==
    \/ args[i] \in {"-c", "-g"}
    \/ RemovedFlag(args, i)
    \/ RemovedFlag(args, i - 1)

RECURSIVE Surviving(_, _)
Surviving(args, i) ==
    IF i > Len(args) THEN << >>
    ELSE IF Deleted(args, i) THEN Surviving(args, i + 1)
    ELSE <<args[i]>> \o Surviving(args, i + 1)

\* C12: sanitizeArgs returns its input with exactly these tokens deleted and
\* the rest in order: every "-c", every "-g", every "-o" that is not the
\* value of a removed "-o", and the token after each removed "-o" (none when
\* it is last); P4's arguments yield ["-O2", "foo.c"]; no result holds
\* "-c", "-g" or "-o".
C12_SanitizeDeletesExactly ==
    compileCommand.stage = "processed" =>
        LET raw == RawOf(compileCommand)
            out == compileCommand.args
        IN /\ out = Surviving(raw, 1)
           /\ \A i \in 1..Len(out) : out[i] \notin {"-c", "-g", "-o"}
           /\ raw = P4Args => out = <<"-O2", "foo.c">>
           /\ (raw # << >> /\ raw[Len(raw)] = "-o" /\ ~RemovedFlag(raw, Len(raw) - 1))
                 => out = Surviving(SubSeq(raw, 1, Len(raw) - 1), 1)

\* C12 witness: process() has sanitized P4's arguments.
C12_Witness ==
    /\ compileCommand.stage = "processed"
    /\ RawOf(compileCommand) = P4Args
    /\ compileCommand.args = <<"-O2", "foo.c">>

\* Each token preceded by one space.
RECURSIVE Spaced(_)
Spaced(args) == IF args = << >> THEN "" ELSE " " \o Head(args) \o Spaced(Tail(args))

\* C13 (amended): the synthesized command is one space-joined string. For
\* Disassembly: the compiler, the six flags, the sanitized arguments, then
\* -o "<target>". For IntermediateRepresentation and Preprocessed the output
\* clause comes before the sanitized arguments: the compiler, -g -S
\* -emit-llvm (resp. -E), -o <target> unquoted, then the sanitized arguments.
C13_CommandLayout ==
    compileCommand.stage = "info" =>
        LET exe == compileCommand.source.command
            args == compileCommand.source.args
            target == uriPath(compileCommand.uri)
        IN /\ compileCommand.kind = "disassembly" =>
                compileCommand.command =
                    exe \o " -g1 -S -masm=intel -fno-unwind-tables"
                        \o " -fno-asynchronous-unwind-tables -fno-dwarf2-cfi-asm"
                        \o Spaced(args) \o " -o \"" \o target \o "\""
           /\ compileCommand.kind = "llvm" =>
                compileCommand.command =
                    exe \o " -g -S -emit-llvm -o " \o target \o Spaced(args)
           /\ compileCommand.kind = "preprocess" =>
                compileCommand.command =
                    exe \o " -E -o " \o target \o Spaced(args)

\* C13 witness: a command was synthesized for the llvm kind from an entry
\* whose sanitized arguments are not empty.
C13_Witness ==
    /\ compileCommand.stage = "info"
    /\ compileCommand.kind = "llvm"
    /\ compileCommand.source.args = <<"-O2", "foo.c">>

\* C13 as claimed: for each kind the output clause comes last, after the
\* sanitized arguments.
C13_Original_OutputClauseLast ==
    compileCommand.stage = "info" =>
        LET exe == compileCommand.source.command
            args == compileCommand.source.args
            target == uriPath(compileCommand.uri)
            flags == IF compileCommand.kind = "disassembly"
                     THEN " -g1 -S -masm=intel -fno-unwind-tables"
                            \o " -fno-asynchronous-unwind-tables -fno-dwarf2-cfi-asm"
                     ELSE IF compileCommand.kind = "llvm" THEN " -g -S -emit-llvm"
                     ELSE " -E"
            clause == IF compileCommand.kind = "disassembly"
                      THEN " -o \"" \o target \o "\""
                      ELSE " -o " \o target
        IN compileCommand.command = exe \o flags \o Spaced(args) \o clause

\* execCompileCommand has spawned the Disassembly build of P6's entry.
P6Spawned ==
    /\ compileCommand.stage = "spawned"
    /\ compileCommand.info.kind = "disassembly"
    /\ compileCommand.info.source.words = P6Command
    /\ compileCommand.info.source.file = "a.c"
    /\ compileCommand.info.source.directory = "/p"

\* C14 (amended): for P6's entry the Disassembly build runs, in directory
\* /p, the compiler with the six flags, then the sanitized arguments -O2 and
\* a.c (the source file stays in the command), then -o and the quoted target
\* <outDir>/a.c.s (only "/" is replaced by "@" in the relative path), then a
\* space and the space-joined current extra arguments.
C14_EndToEndCommand ==
    P6Spawned =>
        /\ compileCommand.spawn.cwd = "/p"
        /\ compileCommand.extraArgs = << >> =>
              compileCommand.spawn.command =
                 "/usr/bin/cc -g1 -S -masm=intel -fno-unwind-tables -fno-asynchronous-unwind-tables -fno-dwarf2-cfi-asm -O2 a.c -o \"<outDir>/a.c.s\" "
        /\ compileCommand.extraArgs = <<"-O2">> =>
              compileCommand.spawn.command =
                 "/usr/bin/cc -g1 -S -masm=intel -fno-unwind-tables -fno-asynchronous-unwind-tables -fno-dwarf2-cfi-asm -O2 a.c -o \"<outDir>/a.c.s\" -O2"

\* C14 witness: the Disassembly build of P6's entry was spawned with the
\* extra arguments ["-O2"].
C14_Witness ==
    /\ P6Spawned
    /\ compileCommand.extraArgs = <<"-O2">>

\* C14 as claimed: the command run is the compiler, the six flags, -O2 and
\* -o "<outDir>/a@c.s", followed by the current extra arguments.
C14_Original_P6Command ==
    P6Spawned =>
        /\ compileCommand.spawn.cwd = "/p"
        /\ compileCommand.spawn.command =
              "/usr/bin/cc -g1 -S -masm=intel -fno-unwind-tables -fno-asynchronous-unwind-tables -fno-dwarf2-cfi-asm -O2 -o \"<outDir>/a@c.s\""
                 \o Spaced(compileCommand.extraArgs)

\* ------------------------------------------------------ claims C15 to C20
\* C15: in every reachable state every artifact uri stored in one of the
\* three kind maps has a record in compileCommands.
C15_KindMapsHaveRecords ==
    \A m \in {asmUriMap, llvmUriMap, preprocessUriMap} :
        \A src \in DOMAIN m : m[src].path \in DOMAIN compileCommands

\* ------------------------------------------------------- staleness inputs
\* The registry holds the records of a.c; the files' times and the argument
\* lists are then whatever the filesystem and the user made them.
ArgLists == {<< >>, <<"-O2">>, <<"-O2", "-g0">>, <<"-g0", "-O2">>}
Times == 0..MaxTime
Loaded == processAll(Blank, Sources)

InitStale ==
    /\ now = MaxTime
    /\ db \in {[status |-> "ok", entries |-> Sources, mtime |-> m] : m \in Times}
                \cup {[status |-> "missing", entries |-> {}, mtime |-> Absent]}
    /\ srcMtime \in [Sources -> Times \cup {Absent}]
    /\ extraArgs \in ArgLists
    /\ \E last \in ArgLists, built \in Times \cup {Absent} :
          /\ compileCommands =
                [p \in DOMAIN Loaded.cc |->
                    IF p[2] = ".s" THEN [Loaded.cc[p] EXCEPT !.extraArgs = last]
                    ELSE Loaded.cc[p]]
          /\ artMtime = [p \in ArtPaths |-> IF p[2] = ".s" THEN built ELSE Absent]
    /\ asmUriMap = Loaded.asm
    /\ llvmUriMap = Loaded.llvm
    /\ preprocessUriMap = Loaded.pre
    /\ initTime = MaxTime
    /\ documents = Blank.docs
    /\ watchers = Blank.watchers
    /\ pending = Blank.pending
    /\ listeners = Blank.listeners
    /\ emitterDisposed = Blank.emitterDisposed
    /\ leaked = Blank.leaked
    /\ succeeded = Blank.succeeded
    /\ openUris = {}
    /\ compileCommand = NoCommand
    /\ running = NoCall
    /\ inFlight = {}

\* CompileCommands.compile(uri), called directly.
Compile(uri, outcome) ==
    LET s == compile(Start, uri, outcome)
    IN /\ Drawn(s, outcome)
       /\ Commit(s)
       /\ UNCHANGED <<env, extraArgs>>

\* Something other than the build rewrites the artifact file.
TouchArtifact(path) ==
    /\ artMtime[path] # now
    /\ artMtime' = [artMtime EXCEPT ![path] = now]
    /\ UNCHANGED <<env, extraArgs, registry, provider, pending>>

NextStale ==
    \/ \E src \in Sources, o \in Outcomes : Compile(encodeAsmUri(src), o)
    \/ \E src \in Sources, o \in Outcomes : Compile(encodeLLVMUri(src), o)
    \/ \E src \in Sources : TouchArtifact(encodeAsmUri(src).path)
    \/ \E args \in ArgLists : SetExtraCompileArgs(args)
    \/ \E src \in Sources : GetSrcUri(encodeAsmUri(src))
    \/ \E src \in Sources : GetAsmUri(src)

SpecStale == InitStale /\ [][NextStale]_vars

\* The four conditions of needsBuild for a record, read off the files.
ArgsDiffer(info) == extraArgs # info.extraArgs
ArtifactAbsent(info) == artMtime[info.uri.path] = Absent
SourcePresent(info) == srcMtime[info.srcUri.path[1]] # Absent
SourceNewer(info) ==
    /\ SourcePresent(info)
    /\ ~ArtifactAbsent(info)
    /\ srcMtime[info.srcUri.path[1]] > artMtime[info.uri.path]
DbPresent == db.status # "missing"
DbNewer(info) ==
    /\ DbPresent
    /\ ~ArtifactAbsent(info)
    /\ db.mtime > artMtime[info.uri.path]
AnyOfFour(info) ==
    ArgsDiffer(info) \/ ArtifactAbsent(info) \/ SourceNewer(info) \/ DbNewer(info)

\* C16, what the code does: with the source file and the database file
\* present, needCompilation is true iff the current extra arguments differ from the
\* record's as an ordered sequence, or the artifact file is absent, or the
\* source's mtime is strictly greater than the artifact's, or the database's
\* is; so a newer artifact, or equal mtimes with equal arguments, yields no
\* rebuild. Differing arguments give true whatever the files. With equal
\* arguments and the source file missing it throws; with the database file
\* missing it throws unless the source check already gave true.
C16_NeedsBuildWhereFilesExist ==
    \A p \in DOMAIN compileCommands :
        LET info == compileCommands[p]
            need == needCompilation(Start, info)
        IN /\ (SourcePresent(info) /\ DbPresent) => need = Bool(AnyOfFour(info))
           /\ ArgsDiffer(info) => need = "true"
           /\ (~ArgsDiffer(info) /\ ~SourcePresent(info)) => need = "throw"
           /\ (~ArgsDiffer(info) /\ SourcePresent(info) /\ ~DbPresent) =>
                 need = IF ArtifactAbsent(info) \/ SourceNewer(info)
                        THEN "true" ELSE "throw"
           /\ (SourcePresent(info) /\ DbPresent /\ db.mtime <= initTime) =>
                 \A o \in Outcomes :
                     Len(compile(Start, info.uri, o).builds)
                        = IF AnyOfFour(info) THEN 1 ELSE 0

\* C16, a state of the case: the artifact was built by compile with non-empty extra
\* arguments, source, database and artifact have the same mtime, and the
\* record is not stale.
C16_BuiltAndFresh ==
    \E p \in DOMAIN compileCommands :
        /\ p \in succeeded
        /\ extraArgs = <<"-O2", "-g0">>
        /\ compileCommands[p].extraArgs = extraArgs
        /\ srcMtime[p[1]] = artMtime[p]
        /\ db.mtime = artMtime[p]
        /\ needCompilation(Start, compileCommands[p]) = "false"

\* C16: needsBuild is true iff one of the four conditions holds, and false
\* otherwise.
C16_NeedsBuildIffAnyOfFour ==
    \A p \in DOMAIN compileCommands :
        needCompilation(Start, compileCommands[p]) = Bool(AnyOfFour(compileCommands[p]))

\* C17: a record's extraArgs changes only in a step that is a compile of
\* that record whose build succeeded, and it becomes the extra arguments the
\* build was run with; every other step - a failed build, a compile that
\* finds the record fresh, a lookup, setExtraCompileArgs, a build of another
\* record, a change of a file - leaves it as it was.
C17_LastExtraArgsFrame ==
    [][/\ \A p \in DOMAIN compileCommands \cap DOMAIN compileCommands' :
            compileCommands'[p].extraArgs # compileCommands[p].extraArgs =>
                /\ extraArgs' = extraArgs
                /\ compileCommands'[p].extraArgs = extraArgs
                /\ LET r == compile(Start, compileCommands[p].uri, "ok")
                   IN /\ r.builds = <<[path |-> p, args |-> extraArgs, outcome |-> "ok"]>>
                      /\ compileCommands' = r.cc
                      /\ artMtime' = r.art
                      /\ succeeded' = r.succeeded
       /\ \A p \in DOMAIN compileCommands, o \in Outcomes :
            LET r == compile(Start, compileCommands[p].uri, o)
            IN \A q \in DOMAIN compileCommands \cap DOMAIN r.cc :
                  r.cc[q].extraArgs # compileCommands[q].extraArgs =>
                      /\ o = "ok"
                      /\ q = p
                      /\ Len(r.builds) = 1
                      /\ r.cc[q].extraArgs = extraArgs]_vars

\* C17 witness: a build of the disassembly succeeded with ["-O2"], the
\* extra arguments were then set to [] and a build of the llvm artifact
\* succeeded with []: the disassembly record still holds ["-O2"].
C17_Witness ==
    \E src \in Sources :
        /\ {encodeAsmUri(src).path, encodeLLVMUri(src).path} \subseteq succeeded
        /\ compileCommands[encodeAsmUri(src).path].extraArgs = <<"-O2">>
        /\ compileCommands[encodeLLVMUri(src).path].extraArgs = << >>
        /\ extraArgs = <<"-O2", "-g0">>

\* C18: when the build command fails (nonzero exit, or it could not be
\* started) execCompileCommand runs no post-pass and neither creates nor
\* modifies the artifact file.
C18_PostPassOnlyAfterSuccess ==
    \A p \in DOMAIN compileCommands, o \in {"fail", "nostart"} :
        LET r == compile(Start, compileCommands[p].uri, o)
        IN (~r.threw /\ r.builds # << >>) => r.art = artMtime

\* C19: with the document of an artifact constructed, one
\* notifyCompileArgsChange for it makes exactly one reload of it - one
\* document stored, one change notification - and reloads nothing else.
C19_NotifyReloadsOnce ==
    \A uri \in openUris, o \in Outcomes :
        (uri \in DOMAIN documents /\ ~emitterDisposed /\ listeners > 0) =>
            LET r == notifyCompileArgsChange(Start, uri, o)
            IN ~r.threw =>
                  /\ Len(r.sets) = 1
                  /\ Len(r.fired) = 1

\* C20: after dispose() a notification of changed arguments (like a
\* filesystem event) reloads nothing: no build is invoked, the document
\* cache stays empty and no change notification is emitted.
C20_NothingReloadsAfterDispose ==
    (emitterDisposed /\ documents = EmptyMap
        /\ \A k \in DOMAIN watchers : watchers[k].disposed) =>
        /\ \A k \in DOMAIN pending : pending[k] = 0
        /\ \A uri \in openUris, o \in Outcomes :
              LET r == notifyCompileArgsChange(Start, uri, o)
              IN /\ r.builds = << >>
                 /\ r.docs = EmptyMap
                 /\ r.fired = << >>

\* ======================================================= callbacks and builds
\* The host runs one callback at a time, to completion. A callback that
\* reaches execCompileCommand spawns the build command and then the c++filt
\* command, each with spawnSync.

\* The external commands of a handler's builds, in order: for each build
\* the build command and the c++filt command (none when the shell could not
\* be spawned).
RECURSIVE Commands(_)
Commands(builds) ==
    IF builds = << >> THEN << >>
    ELSE (IF Head(builds).outcome = "nostart" THEN << >>
          ELSE <<[path |-> Head(builds).path, step |-> "build"],
                 [path |-> Head(builds).path, step |-> "c++filt"]>>)
         \o Commands(Tail(builds))

\* A callback entered: what it will spawn, and the state it leaves.
Called(uri, s) ==
    [pc |-> "running", uri |-> uri, steps |-> Commands(s.builds), done |-> s]

\* Mutant: child_process.spawn - the callback goes on while the child runs.
spawnSync_Async(call) == [call EXCEPT !.steps = Tail(@)]

\* spawnSync: the callback is blocked until the child has exited.
spawnSync(call) == [call EXCEPT !.pc = "blocked", !.steps = Tail(@)]

\* The events that arrived while the callback ran stay queued.
Settle(s) ==
    [s EXCEPT !.pending =
        [k \in DOMAIN s.pending |->
            IF k \in DOMAIN pending /\ s.pending[k] <= pending[k]
            THEN pending[k] ELSE s.pending[k]]]

InitDispatch ==
    /\ now = 0
    /\ db = [status |-> "ok", entries |-> Sources, mtime |-> 0]
    /\ srcMtime = [f \in Sources |-> 0]
    /\ extraArgs = << >>
    /\ LET s == init(Blank)
       IN /\ compileCommands = s.cc
          /\ asmUriMap = s.asm
          /\ llvmUriMap = s.llvm
          /\ preprocessUriMap = s.pre
          /\ initTime = s.initTime
          /\ artMtime = s.art
          /\ documents = s.docs
          /\ watchers = s.watchers
          /\ pending = s.pending
          /\ listeners = s.listeners
          /\ emitterDisposed = s.emitterDisposed
          /\ leaked = s.leaked
          /\ succeeded = s.succeeded
    /\ openUris = HostUris
    /\ compileCommand = NoCommand
    /\ running = NoCall
    /\ inFlight = {}

held == <<now, db, srcMtime, artMtime, extraArgs, registry, provider, openUris,
          compileCommand>>

CallProvide(uri, outcome) ==
    LET s == provideAsmDocument(Start, uri, outcome)
    IN /\ running = NoCall
       /\ uri \notin DOMAIN documents
       /\ s.listeners <= 2 * MaxProvides
       /\ Drawn(s, outcome)
       /\ running' = Called(uri, s)
       /\ UNCHANGED <<held, pending, inFlight>>

CallDeliver(k, outcome) ==
    LET s == reloadAsmDocument(Start, k[2], outcome)
    IN /\ running = NoCall
       /\ ~watchers[k].disposed
       /\ pending[k] > 0
       /\ Drawn(s, outcome)
       /\ pending' = [pending EXCEPT ![k] = @ - 1]
       /\ running' = Called(k[2], [s EXCEPT !.pending[k] = @ - 1])
       /\ UNCHANGED <<held, inFlight>>

CallNotify(uri, outcome) ==
    LET s == notifyCompileArgsChange(Start, uri, outcome)
    IN /\ running = NoCall
       /\ listeners > 0
       /\ Drawn(s, outcome)
       /\ running' = Called(uri, s)
       /\ UNCHANGED <<held, pending, inFlight>>

SpawnSync ==
    /\ running.pc = "running"
    /\ running.steps # << >>
    /\ inFlight' = inFlight \cup {Head(running.steps)}
    /\ running' = spawnSync(running)
    /\ UNCHANGED <<held, pending>>

Exit(proc) ==
    /\ proc \in inFlight
    /\ inFlight' = inFlight \ {proc}
    /\ running' = IF running.pc = "blocked" THEN [running EXCEPT !.pc = "running"]
                  ELSE running
    /\ UNCHANGED <<held, pending>>

Return ==
    /\ running.pc = "running"
    /\ running.steps = << >>
    /\ Commit(Settle(running.done))
    /\ running' = NoCall
    /\ UNCHANGED <<now, db, srcMtime, extraArgs, openUris, compileCommand, inFlight>>

\* The outcomes of a build whose commands are spawned.
Spawned == {"ok", "fail"}

NextDispatch ==
    \/ \E uri \in openUris, o \in Spawned : CallProvide(uri, o)
    \/ \E k \in DOMAIN watchers, o \in Spawned : CallDeliver(k, o)
    \/ \E uri \in openUris, o \in Spawned : CallNotify(uri, o)
    \/ SpawnSync
    \/ \E proc \in inFlight : Exit(proc)
    \/ Return
    \/ \E src \in Sources : running.pc # "running" /\ TouchSrc(src)

SpecDispatch == InitDispatch /\ [][NextDispatch]_vars

\* C11: under every interleaving of requests, watch events and arg-change
\* notifications at most one external process is in flight: while one runs
\* the callback that spawned it is blocked and no other callback has been
\* entered, so a build runs to completion before any other starts; and each
\* build is of one artifact - the one the callback is for - so two kinds
\* sharing a source are built by separate invocations, each by its own
\* watcher's callback.
C11_OneBuildInFlight ==
    /\ Cardinality(inFlight) <= 1
    /\ inFlight # {} => running.pc = "blocked"
    /\ running # NoCall =>
          /\ \A i \in 1..Len(running.steps) : running.steps[i].path = running.uri.path
          /\ \A proc \in inFlight : proc.path = running.uri.path
    /\ \A k \in DOMAIN watchers, o \in Outcomes :
          LET r == reloadAsmDocument(Start, k[2], o)
          IN \A i \in 1..Len(r.builds) : r.builds[i].path = k[2].path

\* C11 witness: the source both kinds share was modified; the build of the
\* llvm artifact is in flight and its callback blocked, while the event for
\* the disassembly of the same source waits to be delivered.
C11_Witness ==
    \E src \in Sources :
        /\ inFlight = {[path |-> encodeLLVMUri(src).path, step |-> "build"]}
        /\ running.pc = "blocked"
        /\ running.uri = encodeLLVMUri(src)
        /\ <<src, encodeAsmUri(src)>> \in DOMAIN pending
        /\ pending[<<src, encodeAsmUri(src)>>] > 0
        /\ srcMtime[src] > artMtime[encodeAsmUri(src).path]
        /\ encodeLLVMUri(src).path \in succeeded

====
